---- MODULE Spec2Model ----
(***************************************************************************)
(* Model of the Azure streaming chat client: AzureClient.get_streaming_    *)
(* response (src/azure_chat/client.py), ChatSession (src/azure_chat/       *)
(* session.py), ChatHistory (src/azure_chat/history.py) and the            *)
(* conversation loop of main (src/chat_app.py).                            *)
(*                                                                         *)
(* Text is modelled by TLA+ strings (Len is the number of characters, \o   *)
(* is Python's +).  Floats are modelled exactly: a duration is a whole     *)
(* number of clock ticks and a rate n / d is the pair <<n, d>>.  The       *)
(* history file is modelled by the sequence of its JSON tokens, written by *)
(* JsonDump and read back by JsonLoad.                                     *)
(***************************************************************************)
EXTENDS Integers, Sequences, FiniteSets, TLC

\* ------------------------------------------------------------- bounds
\* Most fragments one stream delivers.
MaxFrags == 2
\* Largest token count the provider reports in a usage block.
MaxTok == 1
\* Largest duration of one call, in clock ticks.
MaxElapsed == 1
\* Most user messages submitted in one run of the conversation loop.
MaxTurns == 2
\* Most entries a history file holds when a ChatHistory object is made.
MaxEntries == 6
\* Most save_session calls made on one ChatHistory object.
MaxSaves == 2

\* ------------------------------------------------- program constants
\* max_tokens of the streaming request.
StreamMaxTokens == 32768
\* max_tokens of the usage probe.
ProbeMaxTokens == 0
\* Characters per token of the estimate (len(...) // 4).
CharsPerToken == 4
\* Entries per page of browse_history.
PageSize == 5

VARIABLES
    messages,     \* ChatSession.messages / the list handed to the client
    stats,        \* ChatSession.stats
    pc,           \* position of main: "prompt", "turn", "command" (inside
                  \* browse_history or search_history), "exit_save", "exited",
                  \* "crashed", "interrupted"; "client" and "history" when a
                  \* class is exercised on its own
    history_file, \* the history file: whether it exists and its text
    hpc,          \* position of ChatHistory: "idle", "writing" (save_session
                  \* has opened the file), "browse", "search" (at a prompt),
                  \* "continue" (browse_history waits for Enter after it
                  \* displayed a session)
    pending,      \* the local history of save_session, on the way to the file
    saved,        \* the conversations save_session was called with
    file_io,      \* the file accesses of the last save_session call
    answer,       \* what the last ChatHistory method returned or displayed
    browse,       \* the locals of browse_history and search_history
    cpc,          \* position of get_streaming_response
    response,     \* its local ChatResponse
    total_chars,  \* its local total_chars
    last_chunk,   \* its local last_chunk: <<>> for None, <<chunk>> otherwise
    requests,     \* the provider requests the current call has issued
    inflight,     \* number of provider calls currently outstanding
    sink,         \* the content pieces printed so far (client.py line 61)
    pulled,       \* the fragments the current stream has delivered
    probe_reply,  \* what the provider answered to the usage probe
    records,      \* the records get_assistant_response has returned
    turn0,        \* messages and stats when the current turn was submitted
    stream_error  \* whether the streaming call of the current call failed

\* What a ChatHistory method keeps between its steps, and what it answered.
histLocals == <<hpc, pending, saved, file_io, answer, browse>>

vars == <<messages, stats, pc, history_file, histLocals, cpc, response,
          total_chars, last_chunk, requests, inflight, sink, pulled,
          probe_reply, records, turn0, stream_error>>

\* ------------------------------------------------------------ messages
SystemMessage(c) == [role |-> "system", content |-> c]
UserMessage(c) == [role |-> "user", content |-> c]
AssistantMessage(c) == [role |-> "assistant", content |-> c]

\* A 20-character stand-in for the seed prompt (same len()).
SeedContent == "ssssssssssssssssssss"

\* str(messages): the repr of a list of message mappings,
\* "[{'role': 'user', 'content': 'hi'}, ...]": 27 characters of punctuation
\* and keys per message around role and content, ", " between messages and
\* the two brackets.  (No character of the model's texts needs escaping.)
RECURSIVE SumMsgLen(_)
SumMsgLen(msgs) ==
    IF msgs = <<>> THEN 0
    ELSE 27 + Len(Head(msgs).role) + Len(Head(msgs).content)
            + SumMsgLen(Tail(msgs))

SerializedLen(msgs) ==
    IF msgs = <<>> THEN 2
    ELSE 2 + SumMsgLen(msgs) + 2 * (Len(msgs) - 1)

\* ------------------------------------------------------------ provider
NoUsage == [present |-> FALSE, prompt_tokens |-> 0, completion_tokens |-> 0,
            total_tokens |-> 0]
Usage(p, c, t) == [present |-> TRUE, prompt_tokens |-> p,
                   completion_tokens |-> c, total_tokens |-> t]

\* A fragment: whether it has choices, the content of choices[0].delta
\* ("" when absent or empty) and its usage block.
Fragments(D, U) ==
    {[has_choices |-> FALSE, content |-> "", usage |-> u] : u \in U}
    \cup {[has_choices |-> TRUE, content |-> d, usage |-> u] : d \in D, u \in U}

\* What the provider can send in the harness of one call ...
ClientDeltas == {"", "a", "bbab"}
ClientUsages ==
    {NoUsage,
     Usage(0, 0, 0), Usage(MaxTok, 0, MaxTok), Usage(0, MaxTok, MaxTok),
     Usage(MaxTok, MaxTok, 2 * MaxTok),
     \* blocks whose total is not the sum of the two counts
     Usage(MaxTok, MaxTok, MaxTok), Usage(MaxTok, 0, 0)}
ClientFragments == Fragments(ClientDeltas, ClientUsages)
ClientElapsed == 0 .. MaxElapsed
\* ... and in a run of the conversation loop.
SessionFragments ==
    {[has_choices |-> TRUE, content |-> "bbab", usage |-> u] :
        u \in {NoUsage, Usage(MaxTok, MaxTok, 2 * MaxTok)}}
SessionUsages == {Usage(MaxTok, 0, MaxTok)}
SessionElapsed == {MaxElapsed}

\* The answers to the usage probe: an exception, a response without a usage
\* block, a response with one.
ProbeReplies(U) ==
    {[kind |-> "failed", usage |-> NoUsage],
     [kind |-> "no_usage", usage |-> NoUsage]}
    \cup {[kind |-> "usage", usage |-> u] : u \in U \ {NoUsage}}
NoReply == [kind |-> "none", usage |-> NoUsage]

StreamRequest(msgs) ==
    [messages |-> msgs, max_tokens |-> StreamMaxTokens, stream |-> TRUE]
ProbeRequest(msgs, content) ==
    [messages |-> msgs \o <<AssistantMessage(content)>>,
     max_tokens |-> ProbeMaxTokens, stream |-> FALSE]

\* ------------------------------------------------------------ records
\* n / d if d > 0 else 0
Rate(n, d) == IF d > 0 THEN <<n, d>> ELSE <<0, 1>>

ChatResponse ==
    [content |-> "", prompt_tokens |-> 0, completion_tokens |-> 0,
     total_tokens |-> 0, total_chars |-> 0, elapsed_time |-> 0,
     print_rate |-> Rate(0, 0), token_rate |-> Rate(0, 0)]

NoStats == [total_time |-> 0, total_prompt_tokens |-> 0,
            total_completion_tokens |-> 0, total_tokens |-> 0]

\* ------------------------------------------- get_streaming_response
\* A slip of ConsumeChunk: the delta is put in front of the content.
ConsumeChunkPrepend(resp, chars, out, chunk) ==
    IF ~chunk.has_choices \/ chunk.content = ""
    THEN [response |-> resp, total_chars |-> chars, sink |-> out]
    ELSE [response |-> [resp EXCEPT !.content = chunk.content \o @],
          total_chars |-> chars + Len(chunk.content),
          sink |-> Append(out, chunk.content)]

\* Body of the for loop: one chunk against the local state.
ConsumeChunk(resp, chars, out, chunk) ==
    IF ~chunk.has_choices \/ chunk.content = ""
    THEN [response |-> resp, total_chars |-> chars, sink |-> out]
    ELSE [response |-> [resp EXCEPT !.content = @ \o chunk.content],
          total_chars |-> chars + Len(chunk.content),
          sink |-> Append(out, chunk.content)]

\* After the loop: timing and character statistics.
FinishStream(resp, chars, elapsed) ==
    [resp EXCEPT !.elapsed_time = elapsed,
                 !.total_chars = chars,
                 !.print_rate = Rate(chars, elapsed)]

\* A slip of AdoptUsage: prompt and completion counts exchanged.
AdoptUsageSwapped(resp, last) ==
    IF last # <<>> /\ last[1].usage.present
    THEN [resp EXCEPT !.prompt_tokens = last[1].usage.completion_tokens,
                      !.completion_tokens = last[1].usage.prompt_tokens,
                      !.total_tokens = last[1].usage.total_tokens,
                      !.token_rate = Rate(last[1].usage.prompt_tokens,
                                          resp.elapsed_time)]
    ELSE resp

\* A slip of AdoptUsage: the total is taken from the prompt count.
AdoptUsageTotalOfPrompt(resp, last) ==
    IF last # <<>> /\ last[1].usage.present
    THEN [resp EXCEPT !.prompt_tokens = last[1].usage.prompt_tokens,
                      !.completion_tokens = last[1].usage.completion_tokens,
                      !.total_tokens = last[1].usage.prompt_tokens,
                      !.token_rate = Rate(last[1].usage.completion_tokens,
                                          resp.elapsed_time)]
    ELSE resp

\* Method 1: token statistics of the last chunk, when it has any.
AdoptUsage(resp, last) ==
    IF last # <<>> /\ last[1].usage.present
    THEN [resp EXCEPT !.prompt_tokens = last[1].usage.prompt_tokens,
                      !.completion_tokens = last[1].usage.completion_tokens,
                      !.total_tokens = last[1].usage.total_tokens,
                      !.token_rate = Rate(last[1].usage.completion_tokens,
                                          resp.elapsed_time)]
    ELSE resp

\* A slip of NeedsProbe: the probe is requested after every stream.
NeedsProbeAlways(resp) == TRUE

\* Method 2 is taken when the record has no total yet.
NeedsProbe(resp) == resp.total_tokens = 0

\* A slip of CombineProbe: the probe's own completion and total are kept.
CombineProbeVerbatim(resp, usage) ==
    [resp EXCEPT !.prompt_tokens = usage.prompt_tokens,
                 !.completion_tokens = usage.completion_tokens,
                 !.total_tokens = usage.total_tokens,
                 !.token_rate = Rate(usage.completion_tokens,
                                     resp.elapsed_time)]

\* The probe answered with a usage block.
CombineProbe(resp, usage) ==
    [resp EXCEPT !.prompt_tokens = usage.prompt_tokens,
                 !.completion_tokens = Len(resp.content) \div CharsPerToken,
                 !.total_tokens = usage.prompt_tokens
                                  + (Len(resp.content) \div CharsPerToken),
                 !.token_rate = Rate(Len(resp.content) \div CharsPerToken,
                                     resp.elapsed_time)]

\* A slip of EstimateUsage: the prompt is estimated from the probe's
\* conversation, which ends with the assistant reply.
EstimateUsageOfProbe(resp, msgs) ==
    LET probed == msgs \o <<AssistantMessage(resp.content)>>
    IN [resp EXCEPT
          !.prompt_tokens = SerializedLen(probed) \div CharsPerToken,
          !.completion_tokens = Len(resp.content) \div CharsPerToken,
          !.total_tokens = (SerializedLen(probed) \div CharsPerToken)
                           + (Len(resp.content) \div CharsPerToken),
          !.token_rate = Rate(Len(resp.content) \div CharsPerToken,
                              resp.elapsed_time)]

\* The probe raised: both counts are estimated.
EstimateUsage(resp, msgs) ==
    [resp EXCEPT !.prompt_tokens = SerializedLen(msgs) \div CharsPerToken,
                 !.completion_tokens = Len(resp.content) \div CharsPerToken,
                 !.total_tokens = (SerializedLen(msgs) \div CharsPerToken)
                                  + (Len(resp.content) \div CharsPerToken),
                 !.token_rate = Rate(Len(resp.content) \div CharsPerToken,
                                     resp.elapsed_time)]

AfterProbe(resp, reply, msgs) ==
    CASE reply.kind = "usage" -> CombineProbe(resp, reply.usage)
      [] reply.kind = "failed" -> EstimateUsage(resp, msgs)
      [] OTHER -> resp

\* The handler the code's comment says it no longer has: a failed stream
\* is replaced by a non-streaming request and a record is returned.
OnStreamErrorFallback(reqs) ==
    [cpc |-> "returned",
     requests |-> Append(reqs, [messages |-> Head(reqs).messages,
                                max_tokens |-> StreamMaxTokens,
                                stream |-> FALSE])]

\* The outer except clause: what a failure of the streaming call leads to.
OnStreamError(reqs) == [cpc |-> "raised", requests |-> reqs]

\* self.client.complete(stream=True) returns the fragment iterator.
OpenStream ==
    /\ cpc = "start"
    /\ requests' = Append(requests, StreamRequest(messages))
    /\ inflight' = inflight + 1
    /\ cpc' = "pull"
    /\ UNCHANGED <<messages, stats, pc, history_file, histLocals, response, total_chars,
                   last_chunk, sink, pulled, probe_reply, records, turn0, stream_error>>

\* self.client.complete(stream=True) raises.
OpenFail ==
    /\ cpc = "start"
    /\ LET h == OnStreamError(Append(requests, StreamRequest(messages)))
       IN /\ cpc' = h.cpc
          /\ requests' = h.requests
    /\ stream_error' = TRUE
    /\ UNCHANGED <<messages, stats, pc, history_file, histLocals, response, total_chars,
                   last_chunk, inflight, sink, pulled, probe_reply, records,
                   turn0>>

\* The iterator yields one more chunk.
StreamChunk(F) ==
    /\ cpc = "pull"
    /\ Len(pulled) < MaxFrags
    /\ \E chunk \in F :
         LET s == ConsumeChunk(response, total_chars, sink, chunk)
         IN /\ last_chunk' = <<chunk>>
            /\ pulled' = Append(pulled, chunk)
            /\ response' = s.response
            /\ total_chars' = s.total_chars
            /\ sink' = s.sink
    /\ UNCHANGED <<messages, stats, pc, history_file, histLocals, cpc, requests, inflight,
                   probe_reply, records, turn0, stream_error>>

\* The iterator raises.
StreamFail ==
    /\ cpc = "pull"
    /\ LET h == OnStreamError(requests)
       IN /\ cpc' = h.cpc
          /\ requests' = h.requests
    /\ inflight' = inflight - 1
    /\ stream_error' = TRUE
    /\ UNCHANGED <<messages, stats, pc, history_file, histLocals, response, total_chars,
                   last_chunk, sink, pulled, probe_reply, records, turn0>>

\* A slip of ProbeCall: the reply is appended to the caller's list itself.
ProbeCallInPlace(msgs, content) ==
    [request |-> ProbeRequest(msgs, content),
     messages |-> msgs \o <<AssistantMessage(content)>>]

\* The probe is called with messages + [AssistantMessage(..)], a new list:
\* the request carries it and the caller's list is left as it was.
ProbeCall(msgs, content) ==
    [request |-> ProbeRequest(msgs, content), messages |-> msgs]

\* The iterator is exhausted: statistics, the last chunk's usage and either
\* the return or the request of the usage probe.
StreamEnd(E) ==
    /\ cpc = "pull"
    /\ \E elapsed \in E :
         LET r == AdoptUsage(FinishStream(response, total_chars, elapsed),
                             last_chunk)
         IN /\ response' = r
            /\ IF NeedsProbe(r)
               THEN /\ cpc' = "probe"
                    /\ requests' =
                         Append(requests,
                                ProbeCall(messages, r.content).request)
                    /\ messages' = ProbeCall(messages, r.content).messages
                    /\ inflight' = inflight
               ELSE /\ cpc' = "returned"
                    /\ requests' = requests
                    /\ messages' = messages
                    /\ inflight' = inflight - 1
    /\ UNCHANGED <<stats, pc, history_file, histLocals, total_chars, last_chunk,
                   sink, pulled, probe_reply, records, turn0, stream_error>>

\* The probe call ends, by a response or an exception, and the record is
\* returned.
ProbeReturn(U) ==
    /\ cpc = "probe"
    /\ \E reply \in ProbeReplies(U) :
         /\ probe_reply' = reply
         /\ response' = AfterProbe(response, reply, messages)
    /\ cpc' = "returned"
    /\ inflight' = inflight - 1
    /\ UNCHANGED <<messages, stats, pc, history_file, histLocals, total_chars, last_chunk,
                   requests, sink, pulled, records, turn0, stream_error>>

\* ------------------------------------------------------ ChatSession
\* A slip of UpdateStats: the token total is assigned, not added.
UpdateStatsAssign(st, resp) ==
    [total_time |-> st.total_time + resp.elapsed_time,
     total_prompt_tokens |-> st.total_prompt_tokens + resp.prompt_tokens,
     total_completion_tokens |->
         st.total_completion_tokens + resp.completion_tokens,
     total_tokens |-> resp.total_tokens]

\* A slip of add_assistant_message: the reply is put first.
add_assistant_message_first(msgs, content) ==
    <<AssistantMessage(content)>> \o msgs

\* get_assistant_response: fold the record into the totals.
UpdateStats(st, resp) ==
    [total_time |-> st.total_time + resp.elapsed_time,
     total_prompt_tokens |-> st.total_prompt_tokens + resp.prompt_tokens,
     total_completion_tokens |->
         st.total_completion_tokens + resp.completion_tokens,
     total_tokens |-> st.total_tokens + resp.total_tokens]

add_user_message(msgs, content) == Append(msgs, UserMessage(content))
add_assistant_message(msgs, content) == Append(msgs, AssistantMessage(content))

\* ------------------------------------------------------------- text
\* str.lower(), str.strip(), str.isdigit(), int(), startswith and the
\* substring test `in`, over the characters of the model's texts.
UpperAlpha == "ABCDEFGHIJKLMNOPQRSTUVWXYZ"
LowerAlpha == "abcdefghijklmnopqrstuvwxyz"
Digits == "0123456789"

CharAt(str, i) == SubSeq(str, i, i)

IndexIn(alphabet, c) ==
    IF \E i \in 1 .. Len(alphabet) : CharAt(alphabet, i) = c
    THEN CHOOSE i \in 1 .. Len(alphabet) : CharAt(alphabet, i) = c
    ELSE 0

\* The lower-case letter of each upper-case letter.
LowerTable ==
    [c \in {CharAt(UpperAlpha, i) : i \in 1 .. Len(UpperAlpha)} |->
        CharAt(LowerAlpha, IndexIn(UpperAlpha, c))]

LowerChar(c) == IF c \in DOMAIN LowerTable THEN LowerTable[c] ELSE c

RECURSIVE Lower(_)
Lower(str) ==
    IF str = "" THEN "" ELSE LowerChar(Head(str)) \o Lower(Tail(str))

StartsWith(str, prefix) ==
    Len(str) >= Len(prefix) /\ SubSeq(str, 1, Len(prefix)) = prefix

\* needle in str
Contains(str, needle) ==
    \E i \in 1 .. Len(str) + 1 :
        /\ i + Len(needle) - 1 <= Len(str)
        /\ SubSeq(str, i, i + Len(needle) - 1) = needle

RECURSIVE LStrip(_)
LStrip(str) ==
    IF str # "" /\ Head(str) = " " THEN LStrip(Tail(str)) ELSE str

RECURSIVE RStrip(_)
RStrip(str) ==
    IF str # "" /\ CharAt(str, Len(str)) = " "
    THEN RStrip(SubSeq(str, 1, Len(str) - 1)) ELSE str

Strip(str) == RStrip(LStrip(str))

IsDigit(str) ==
    /\ str # ""
    /\ \A i \in 1 .. Len(str) : IndexIn(Digits, CharAt(str, i)) > 0

RECURSIVE ToInt(_)
ToInt(str) ==
    IF str = "" THEN 0
    ELSE 10 * ToInt(SubSeq(str, 1, Len(str) - 1))
         + (IndexIn(Digits, CharAt(str, Len(str))) - 1)

\* ------------------------------------------------------------- JSON
\* The text of the history file is the sequence of its JSON tokens (the
\* white space of indent=2 between them carries nothing): the punctuation
\* marks and the string literals, a literal being its text in quotes (no
\* text of the model holds a character that JSON escapes).
Quote(str) == "\"" \o str \o "\""

\* The quoted names of the members.
RoleKey == Quote("role")
ContentKey == Quote("content")
TimestampKey == Quote("timestamp")
MessagesKey == Quote("messages")

DumpMessage(m) ==
    <<"{", RoleKey, ":", Quote(m.role), ",",
      ContentKey, ":", Quote(m.content), "}">>

RECURSIVE DumpMessages(_)
DumpMessages(msgs) ==
    IF msgs = <<>> THEN <<>>
    ELSE IF Len(msgs) = 1 THEN DumpMessage(msgs[1])
    ELSE DumpMessage(msgs[1]) \o <<",">> \o DumpMessages(Tail(msgs))

DumpEntry(e) ==
    <<"{", TimestampKey, ":", Quote(e.timestamp), ",",
      MessagesKey, ":", "[">> \o DumpMessages(e.messages) \o <<"]", "}">>

RECURSIVE DumpEntries(_)
DumpEntries(entries) ==
    IF entries = <<>> THEN <<>>
    ELSE IF Len(entries) = 1 THEN DumpEntry(entries[1])
    ELSE DumpEntry(entries[1]) \o <<",">> \o DumpEntries(Tail(entries))

\* json.dump(history, f): the tokens written, in order.
JsonDump(entries) == <<"[">> \o DumpEntries(entries) \o <<"]">>

\* json.load(f): a parse result is [ok, value, next], next the position
\* after what was read.  The parser reads what JsonDump writes; any other
\* text is a JSONDecodeError.
ParseError == [ok |-> FALSE, value |-> <<>>, next |-> 0]

TokenAt(toks, i) == IF 1 <= i /\ i <= Len(toks) THEN toks[i] ELSE ""

\* The tokens from position i on are the expected ones.
Expect(toks, i, expected) ==
    /\ i + Len(expected) - 1 <= Len(toks)
    /\ SubSeq(toks, i, i + Len(expected) - 1) = expected

IsLiteral(tok) ==
    Len(tok) >= 2 /\ Head(tok) = "\"" /\ CharAt(tok, Len(tok)) = "\""

Unquote(tok) == SubSeq(tok, 2, Len(tok) - 1)

\* The fixed tokens of a message object and of an entry object.
MessageOpens == <<"{", RoleKey, ":">>
MessageContinues == <<",", ContentKey, ":">>
EntryOpens == <<"{", TimestampKey, ":">>
EntryContinues == <<",", MessagesKey, ":">>

ParseMessage(toks, i) ==
    IF /\ Expect(toks, i, MessageOpens)
       /\ IsLiteral(TokenAt(toks, i + 3))
       /\ Expect(toks, i + 4, MessageContinues)
       /\ IsLiteral(TokenAt(toks, i + 7))
       /\ TokenAt(toks, i + 8) = "}"
    THEN [ok |-> TRUE,
          value |-> [role |-> Unquote(toks[i + 3]),
                     content |-> Unquote(toks[i + 7])],
          next |-> i + 9]
    ELSE ParseError

\* The items of a message array, from its first item to its "]".
RECURSIVE ParseMessageItems(_, _, _)
ParseMessageItems(toks, i, acc) ==
    LET After(m) ==
          IF ~m.ok THEN ParseError
          ELSE IF TokenAt(toks, m.next) = ","
          THEN ParseMessageItems(toks, m.next + 1, Append(acc, m.value))
          ELSE IF TokenAt(toks, m.next) = "]"
          THEN [ok |-> TRUE, value |-> Append(acc, m.value),
                next |-> m.next + 1]
          ELSE ParseError
    IN After(ParseMessage(toks, i))

ParseMessageArray(toks, i) ==
    IF TokenAt(toks, i) # "[" THEN ParseError
    ELSE IF TokenAt(toks, i + 1) = "]"
    THEN [ok |-> TRUE, value |-> <<>>, next |-> i + 2]
    ELSE ParseMessageItems(toks, i + 1, <<>>)

ParseEntry(toks, i) ==
    IF /\ Expect(toks, i, EntryOpens)
       /\ IsLiteral(TokenAt(toks, i + 3))
       /\ Expect(toks, i + 4, EntryContinues)
    THEN LET After(msgs) ==
               IF msgs.ok /\ TokenAt(toks, msgs.next) = "}"
               THEN [ok |-> TRUE,
                     value |-> [timestamp |-> Unquote(toks[i + 3]),
                                messages |-> msgs.value],
                     next |-> msgs.next + 1]
               ELSE ParseError
         IN After(ParseMessageArray(toks, i + 7))
    ELSE ParseError

RECURSIVE ParseEntryItems(_, _, _)
ParseEntryItems(toks, i, acc) ==
    LET After(e) ==
          IF ~e.ok THEN ParseError
          ELSE IF TokenAt(toks, e.next) = ","
          THEN ParseEntryItems(toks, e.next + 1, Append(acc, e.value))
          ELSE IF TokenAt(toks, e.next) = "]"
          THEN [ok |-> TRUE, value |-> Append(acc, e.value),
                next |-> e.next + 1]
          ELSE ParseError
    IN After(ParseEntry(toks, i))

\* The whole text is one array and nothing follows it.
JsonLoad(toks) ==
    LET Whole(r) == IF r.ok /\ r.next = Len(toks) + 1 THEN r ELSE ParseError
    IN Whole(IF TokenAt(toks, 1) # "[" THEN ParseError
             ELSE IF TokenAt(toks, 2) = "]"
             THEN [ok |-> TRUE, value |-> <<>>, next |-> 3]
             ELSE ParseEntryItems(toks, 2, <<>>))

\* ------------------------------------------------------ ChatHistory
\* The file: absent, or present with a text.
NoFile == [exists |-> FALSE, text |-> <<>>]
FileOf(text) == [exists |-> TRUE, text |-> text]

\* __init__: an absent file is created holding the empty array.
ChatHistoryInit(file) == IF file.exists THEN file ELSE FileOf(JsonDump(<<>>))

\* load_history (and the read of save_session): [] for an absent file
\* (FileNotFoundError) and for a text that does not parse (JSONDecodeError).
load_history(file) ==
    IF ~file.exists THEN <<>>
    ELSE LET Decoded(loaded) == IF loaded.ok THEN loaded.value ELSE <<>>
         IN Decoded(JsonLoad(file.text))

\* The messages save_session keeps: those with a role and a content, as
\* (role, content) pairs.
IsMessage(m) == {"role", "content"} \subseteq DOMAIN m

\* A slip of simplified_messages: the system messages are left out.
RECURSIVE simplified_without_system(_)
simplified_without_system(msgs) ==
    IF msgs = <<>> THEN <<>>
    ELSE (IF IsMessage(Head(msgs)) /\ Head(msgs).role # "system"
          THEN <<[role |-> Head(msgs).role, content |-> Head(msgs).content]>>
          ELSE <<>>)
         \o simplified_without_system(Tail(msgs))

RECURSIVE simplified_messages(_)
simplified_messages(msgs) ==
    IF msgs = <<>> THEN <<>>
    ELSE (IF IsMessage(Head(msgs))
          THEN <<[role |-> Head(msgs).role, content |-> Head(msgs).content]>>
          ELSE <<>>)
         \o simplified_messages(Tail(msgs))

\* A slip of IsTrivial: only the empty list is skipped.
IsTrivialEmptyOnly(msgs) == Len(msgs) = 0

\* save_session has nothing to save: len(messages) <= 1.
IsTrivial(msgs) == Len(msgs) <= 1

\* datetime.now().isoformat() at the time of a save.
Timestamps == {"2026-01-01T00:00:00"}

\* save_session, in memory: nothing for a conversation of at most one
\* message, otherwise the stamped pairs are appended to the history read.
save_session(history, msgs, stamp) ==
    IF IsTrivial(msgs) THEN history
    ELSE Append(history,
                [timestamp |-> stamp, messages |-> simplified_messages(msgs)])

\* A slip of get_session: no lower bound, so that a negative position
\* counts from the end of the list.
get_session_wrapping(history, index) ==
    IF index < Len(history) /\ history # <<>>
    THEN <<history[(index % Len(history)) + 1].timestamp,
           history[(index % Len(history)) + 1].messages>>
    ELSE <<"", <<>>>>

\* get_session(index): the pair (timestamp, messages) of the entry at a
\* position of the history, ("", []) for a position outside it (history is
\* what its call of load_history returned).
get_session(history, index) ==
    IF 0 <= index /\ index < Len(history)
    THEN <<history[index + 1].timestamp, history[index + 1].messages>>
    ELSE <<"", <<>>>>

\* The lines display_session prints for the messages of an entry: the user
\* and assistant messages, the system messages skipped.
RECURSIVE DisplayedMessages(_)
DisplayedMessages(msgs) ==
    IF msgs = <<>> THEN <<>>
    ELSE (IF Head(msgs).role \in {"user", "assistant"}
          THEN <<Head(msgs)>> ELSE <<>>)
         \o DisplayedMessages(Tail(msgs))

\* display_session(index): "not found" for the empty timestamp.
display_session(history, index) ==
    LET session == get_session(history, index)
    IN IF session[1] = ""
       THEN [kind |-> "not_found", index |-> index]
       ELSE [kind |-> "session", index |-> index, timestamp |-> session[1],
             shown |-> DisplayedMessages(session[2])]

\* A slip of Matches: the case is not ignored.
MatchesCase(keyword, content) == Contains(content, keyword)

\* keyword.lower() in msg["content"].lower()
Matches(keyword, content) == Contains(Lower(content), Lower(keyword))

\* The inner loop of search_history: some message of the entry matches.
RECURSIVE AnyMessageMatches(_, _)
AnyMessageMatches(keyword, msgs) ==
    IF msgs = <<>> THEN FALSE
    ELSE IF Matches(keyword, Head(msgs).content) THEN TRUE
    ELSE AnyMessageMatches(keyword, Tail(msgs))

\* The outer loop of search_history from position i (0-based) on: the
\* (index, timestamp) pairs appended to results.
RECURSIVE SearchFrom(_, _, _)
SearchFrom(history, keyword, i) ==
    IF i >= Len(history) THEN <<>>
    ELSE (IF AnyMessageMatches(keyword, history[i + 1].messages)
          THEN <<(<<i, history[i + 1].timestamp>>)>> ELSE <<>>)
         \o SearchFrom(history, keyword, i + 1)

search_results(history, keyword) == SearchFrom(history, keyword, 0)

\* browse_history: the page arithmetic.
total_pages(session_count) == (session_count + PageSize - 1) \div PageSize

Min(a, b) == IF a <= b THEN a ELSE b

start_idx(current_page) == current_page * PageSize
end_idx(current_page, session_count) ==
    Min(start_idx(current_page) + PageSize, session_count)

\* A slip of NextPage: n moves on from the last page too.
NextPageUnguarded(current_page, pages) == current_page + 1

\* What n and p do to the page.

NextPage(current_page, pages) ==
    IF current_page < pages - 1 THEN current_page + 1 ELSE current_page

PrevPage(current_page) ==
    IF current_page > 0 THEN current_page - 1 ELSE current_page

NoBrowse ==
    [current_page |-> 0, total_pages |-> 0, session_count |-> 0,
     start_idx |-> 0, end_idx |-> 0, choice |-> "", results |-> <<>>]

\* The screen the browse loop draws at the top of an iteration.
BrowsePage(current_page, session_count, choice) ==
    [current_page |-> current_page,
     total_pages |-> total_pages(session_count),
     session_count |-> session_count,
     start_idx |-> start_idx(current_page),
     end_idx |-> end_idx(current_page, session_count),
     choice |-> choice, results |-> <<>>]

NoAnswer == [kind |-> "none"]

\* Where main is once a ChatHistory method it called has returned.
Returned(at) == IF at = "command" THEN "prompt" ELSE at

\* What the caller has of a method that returned: browse_history and
\* search_history return nothing, and main goes on with nothing of what
\* they displayed.
Kept(at, shown) == IF at \in {"prompt", "command"} THEN NoAnswer ELSE shown

sessionState == <<messages, stats, records, turn0>>
clientLocals == <<cpc, response, total_chars, last_chunk, requests, inflight,
                  sink, pulled, probe_reply, stream_error>>

\* save_session(msgs) up to the opening of the file for writing: the early
\* return, or the read of the whole history, the new entry, and open(.., "w"),
\* which leaves the file empty until json.dump's text arrives.
SaveBegin(msgs) ==
    /\ hpc = "idle"
    /\ saved' = Append(saved, msgs)
    /\ IF IsTrivial(msgs)
       THEN /\ file_io' = <<>>
            /\ answer' = [kind |-> "skipped"]
            /\ UNCHANGED <<history_file, hpc, pending>>
       ELSE /\ \E stamp \in Timestamps :
                 pending' = save_session(load_history(history_file), msgs, stamp)
            /\ history_file' = FileOf(<<>>)
            /\ file_io' = <<"read", "truncate">>
            /\ hpc' = "writing"
            /\ answer' = [kind |-> "saving"]
    /\ UNCHANGED browse

\* json.dump and the close of the file complete: save_session returns.
SaveWrite ==
    /\ hpc = "writing"
    /\ history_file' = FileOf(JsonDump(pending))
    /\ file_io' = Append(file_io, "write")
    /\ answer' = [kind |-> "saved"]
    /\ pending' = <<>>
    /\ hpc' = "idle"
    /\ pc' = IF pc = "exit_save" THEN "exited" ELSE pc
    /\ UNCHANGED <<saved, browse, sessionState, clientLocals>>

\* What is in the file when the write stops part-way: nothing yet, or all
\* of the text but its last token.
PartialWrites(text) == {SubSeq(text, 1, n) : n \in {0, Len(text) - 1}}

\* The write fails part-way (OSError of write or close, or the process is
\* interrupted): save_session raises, which in main ends the run.
SaveFail ==
    /\ hpc = "writing"
    /\ \E text \in PartialWrites(JsonDump(pending)) :
         history_file' = FileOf(text)
    /\ file_io' = Append(file_io, "write_failed")
    /\ answer' = [kind |-> "raised"]
    /\ pending' = <<>>
    /\ hpc' = "idle"
    /\ pc' = IF pc = "exit_save" THEN "crashed" ELSE pc
    /\ UNCHANGED <<saved, browse, sessionState, clientLocals>>

\* browse_history up to its first screen.
BrowseOpen ==
    /\ hpc = "idle"
    /\ LET history == load_history(history_file)
       IN IF history = <<>>
          THEN /\ answer' = Kept(pc, [kind |-> "no_history"])
               /\ UNCHANGED <<hpc, browse>>
          ELSE /\ hpc' = "browse"
               /\ browse' = BrowsePage(0, Len(history), "")
               /\ answer' = [kind |-> "page"]
    /\ UNCHANGED <<history_file, pending, saved, file_io>>

\* What the user types at the browse prompt, called on its own and in a
\* run of the conversation loop.
BrowseInputs == {"q", "n", " N ", "p", "x", "0", "1", "6", "42"}
SessionBrowseInputs == {"q", "n", "1"}

\* One iteration of the browse loop up to its next input(): the input is
\* stripped and lowered, then q, n, p, a session number, or anything else.
\* After a session is displayed the loop waits for Enter before it draws
\* the screen again; after "invalid index" and "invalid input" it sleeps a
\* second, reading nothing, and draws the screen again.
BrowseKey(Inputs) ==
    /\ hpc = "browse"
    /\ \E typed \in Inputs :
         LET choice == Lower(Strip(typed))
             idx == ToInt(choice) - 1
         IN IF choice = "q"
            THEN /\ hpc' = "idle"
                 /\ browse' = NoBrowse
                 /\ answer' = NoAnswer
                 /\ pc' = Returned(pc)
            ELSE /\ browse' =
                      BrowsePage(
                          IF choice = "n"
                          THEN NextPage(browse.current_page, browse.total_pages)
                          ELSE IF choice = "p"
                          THEN PrevPage(browse.current_page)
                          ELSE browse.current_page,
                          browse.session_count, choice)
                 /\ answer' =
                      IF choice \in {"n", "p"} THEN [kind |-> "page"]
                      ELSE IF IsDigit(choice)
                      THEN (IF 0 <= idx /\ idx < browse.session_count
                            THEN display_session(
                                     load_history(history_file), idx)
                            ELSE [kind |-> "invalid_index"])
                      ELSE [kind |-> "invalid_input"]
                 /\ hpc' = IF /\ IsDigit(choice)
                              /\ 0 <= idx /\ idx < browse.session_count
                           THEN "continue" ELSE "browse"
                 /\ UNCHANGED pc
    /\ UNCHANGED <<history_file, pending, saved, file_io, sessionState,
                   clientLocals>>

\* input("...") after a displayed session: the line typed is read and
\* dropped, and the loop draws the same page again.
BrowseContinue(Inputs) ==
    /\ hpc = "continue"
    /\ \E typed \in Inputs : TRUE
    /\ hpc' = "browse"
    /\ answer' = [kind |-> "page"]
    /\ UNCHANGED <<browse, pc, history_file, pending, saved, file_io,
                   sessionState, clientLocals>>

\* search_history(keyword) up to its prompt: nothing to ask when the
\* history is empty or nothing matches.
\* (history is what its call of load_history returned.)
SearchBegin(history, keyword) ==
    /\ hpc = "idle"
    /\ LET results == search_results(history, keyword)
       IN IF history = <<>>
          THEN /\ answer' = Kept(pc, [kind |-> "no_history",
                                      keyword |-> keyword,
                                      results |-> <<>>])
               /\ UNCHANGED <<hpc, browse>>
          ELSE IF results = <<>>
          THEN /\ answer' = Kept(pc, [kind |-> "no_results",
                                      keyword |-> keyword,
                                      results |-> <<>>])
               /\ UNCHANGED <<hpc, browse>>
          ELSE /\ answer' = [kind |-> "results", keyword |-> keyword,
                             results |-> results]
               /\ browse' = [NoBrowse EXCEPT !.results = results]
               /\ hpc' = "search"
    /\ UNCHANGED <<history_file, pending, saved, file_io>>

\* What the user types at the search prompt, called on its own and in a
\* run of the conversation loop.
SearchInputs == {"", "1 ", "2", "x"}
SessionSearchInputs == {"", "1"}

\* The choice at the end of search_history: a number of the result list
\* displays that session, anything else returns.
SearchChoice(Inputs) ==
    /\ hpc = "search"
    /\ \E typed \in Inputs :
         LET choice == Strip(typed)
             idx == ToInt(choice) - 1
         IN answer' =
              Kept(pc,
                   IF IsDigit(choice) /\ 0 <= idx /\ idx < Len(browse.results)
                   THEN display_session(load_history(history_file),
                                        browse.results[idx + 1][1])
                   ELSE NoAnswer)
    /\ hpc' = "idle"
    /\ browse' = NoBrowse
    /\ pc' = Returned(pc)
    /\ UNCHANGED <<history_file, pending, saved, file_io, sessionState,
                   clientLocals>>

\* input() of the browse or search prompt raises (end of input or Ctrl-C):
\* neither method catches it, and in main it ends the run.
HistoryInputAbort ==
    /\ hpc \in {"browse", "continue", "search"}
    /\ hpc' = "idle"
    /\ browse' = NoBrowse
    /\ answer' = [kind |-> "raised"]
    /\ pc' = IF pc = "command" THEN "crashed" ELSE pc
    /\ UNCHANGED <<history_file, pending, saved, file_io, sessionState,
                   clientLocals>>

\* ------------------------------------------------------------- main
UserTexts == {"hi"}

RECURSIVE CountRole(_, _)
CountRole(msgs, role) ==
    IF msgs = <<>> THEN 0
    ELSE (IF Head(msgs).role = role THEN 1 ELSE 0)
         + CountRole(Tail(msgs), role)

\* What happens at the prompt: a line is entered, or the prompt is
\* interrupted (Ctrl-C), or the input has ended (Ctrl-D).
Line(text) == [kind |-> "line", text |-> text]
KeyboardInterrupt == [kind |-> "interrupt", text |-> ""]
EOFError == [kind |-> "eof", text |-> ""]

PromptLines ==
    UserTexts \cup {"", "EXIT", "q", "History", "search PARIS ", "search  "}

PromptEvents == {Line(text) : text \in PromptLines}
                \cup {KeyboardInterrupt, EOFError}

\* get_user_input: the line, "" for an interrupt, "exit" at end of input.
get_user_input(event) ==
    IF event.kind = "interrupt" THEN ""
    ELSE IF event.kind = "eof" THEN "exit"
    ELSE event.text

\* The exit words main compares the lowered input with (its fourth word is
\* written in Chinese characters, which no text of the model contains).
ExitWords == {"exit", "quit", "q"}

\* The branch of the loop body an input takes, in the order of the tests.
Dispatch(user_input) ==
    IF user_input = "" THEN "empty"
    ELSE IF Lower(user_input) \in ExitWords THEN "exit"
    ELSE IF Lower(user_input) = "history" THEN "history"
    ELSE IF StartsWith(Lower(user_input), "search ") THEN "search"
    ELSE "chat"

\* keyword = user_input[7:].strip()
SearchKeyword(user_input) == Strip(SubSeq(user_input, 8, Len(user_input)))

InputsTo(branch) ==
    {user_input \in {get_user_input(event) : event \in PromptEvents} :
        Dispatch(user_input) = branch}

EmptyInputs == InputsTo("empty")
ExitInputs == InputsTo("exit")
HistoryInputs == InputsTo("history")
SearchInputLines == InputsTo("search")
ChatInputs == InputsTo("chat")

\* An empty input (or an interrupted prompt): the loop prompts again.
EmptyInput ==
    /\ pc = "prompt"
    /\ EmptyInputs # {}
    /\ UNCHANGED vars

\* A line that is no command: the user message is added and
\* get_assistant_response calls the client.
SubmitInput ==
    /\ pc = "prompt"
    /\ CountRole(messages, "user") < MaxTurns
    /\ \E text \in ChatInputs :
         messages' = add_user_message(messages, text)
    /\ turn0' = [messages |-> messages, stats |-> stats]
    /\ pc' = "turn"
    /\ cpc' = "start"
    /\ response' = ChatResponse
    /\ total_chars' = 0
    /\ last_chunk' = <<>>
    /\ requests' = <<>>
    /\ pulled' = <<>>
    /\ probe_reply' = NoReply
    /\ stream_error' = FALSE
    /\ UNCHANGED <<stats, history_file, histLocals, inflight, sink, records>>

\* The client returned: totals, statistics display, assistant message.
TurnReturn ==
    /\ pc = "turn"
    /\ cpc = "returned"
    /\ stats' = UpdateStats(stats, response)
    /\ records' = Append(records, response)
    /\ messages' = add_assistant_message(messages, response.content)
    /\ pc' = "prompt"
    /\ cpc' = "idle"
    /\ UNCHANGED <<history_file, histLocals, response, total_chars, last_chunk, requests,
                   inflight, sink, pulled, probe_reply, turn0, stream_error>>

\* A slip of OnTurnError: the error ends the run.
OnTurnErrorExit(msgs, totals) ==
    [pc |-> "crashed", messages |-> msgs, stats |-> totals]

\* What the except clause of the turn does: the error is printed, nothing
\* of the session is touched, and the loop goes on.
OnTurnError(msgs, totals) ==
    [pc |-> "prompt", messages |-> msgs, stats |-> totals]

\* The client raised: main reports the error and prompts again.
TurnError ==
    /\ pc = "turn"
    /\ cpc = "raised"
    /\ pc' = OnTurnError(messages, stats).pc
    /\ messages' = OnTurnError(messages, stats).messages
    /\ stats' = OnTurnError(messages, stats).stats
    /\ cpc' = "idle"
    /\ UNCHANGED <<history_file, histLocals, response, total_chars,
                   last_chunk, requests, inflight, sink, pulled, probe_reply,
                   records, turn0, stream_error>>

\* Ctrl-C while get_assistant_response waits for the provider: the
\* KeyboardInterrupt is no Exception, so neither the client's handlers nor
\* main's catch it and the run ends there, the client's frame with it.
Interrupt ==
    /\ pc = "turn"
    /\ cpc \in {"start", "pull", "probe"}
    /\ pc' = "interrupted"
    /\ cpc' = "idle"
    /\ inflight' = 0
    /\ response' = ChatResponse
    /\ total_chars' = 0
    /\ last_chunk' = <<>>
    /\ pulled' = <<>>
    /\ probe_reply' = NoReply
    /\ UNCHANGED <<sessionState, history_file, histLocals, requests, sink,
                   stream_error>>

\* An exit command (or the end of input): the conversation is saved, and
\* once save_session has returned the loop ends.
Exit ==
    /\ pc = "prompt"
    /\ ExitInputs # {}
    /\ SaveBegin(messages)
    /\ pc' = IF hpc' = "idle" THEN "exited" ELSE "exit_save"
    /\ UNCHANGED <<sessionState, clientLocals>>

\* The history command.
HistoryCommand ==
    /\ pc = "prompt"
    /\ HistoryInputs # {}
    /\ BrowseOpen
    /\ pc' = IF hpc' = "idle" THEN "prompt" ELSE "command"
    /\ UNCHANGED <<sessionState, clientLocals>>

\* The search command: search_history for a keyword, a notice without one.
SearchCommand ==
    /\ pc = "prompt"
    /\ \E user_input \in SearchInputLines :
         IF SearchKeyword(user_input) # ""
         THEN /\ SearchBegin(load_history(history_file),
                             SearchKeyword(user_input))
              /\ pc' = IF hpc' = "idle" THEN "prompt" ELSE "command"
         ELSE UNCHANGED <<pc, history_file, histLocals>>
    /\ UNCHANGED <<sessionState, clientLocals>>

\* ---------------------------------------------------- specifications
\* The history file main has at start, ChatHistory() constructed: a new
\* one, or the one an earlier run has written.
StoredBodies ==
    <<(<<SystemMessage("s"), UserMessage("Paris?"),
         AssistantMessage("Visit the Louvre")>>),
      (<<SystemMessage("s"), UserMessage("hi")>>),
      <<>>,
      (<<SystemMessage("s"), UserMessage("HI all"),
         AssistantMessage("in paris")>>)>>

StoredEntry(k) ==
    [timestamp |-> "2025-01-0" \o CharAt(Digits, k + 1),
     messages |-> StoredBodies[((k - 1) % Len(StoredBodies)) + 1]]

StoreOf(n) == [k \in 1 .. n |-> StoredEntry(k)]

SessionFiles ==
    {ChatHistoryInit(NoFile), ChatHistoryInit(FileOf(JsonDump(StoreOf(1))))}

InitHistoryLocals ==
    /\ hpc = "idle"
    /\ pending = <<>>
    /\ saved = <<>>
    /\ file_io = <<>>
    /\ answer = NoAnswer
    /\ browse = NoBrowse

\* A run of chat_app.main.
Init ==
    /\ messages = <<SystemMessage(SeedContent)>>
    /\ stats = NoStats
    /\ pc = "prompt"
    /\ history_file \in SessionFiles
    /\ InitHistoryLocals
    /\ cpc = "idle"
    /\ response = ChatResponse
    /\ total_chars = 0
    /\ last_chunk = <<>>
    /\ requests = <<>>
    /\ inflight = 0
    /\ sink = <<>>
    /\ pulled = <<>>
    /\ probe_reply = NoReply
    /\ records = <<>>
    /\ turn0 = [messages |-> <<>>, stats |-> NoStats]
    /\ stream_error = FALSE

SessionChunk == StreamChunk(SessionFragments)
SessionEnd == StreamEnd(SessionElapsed)
SessionProbe == ProbeReturn(SessionUsages)
SessionBrowseKey == BrowseKey(SessionBrowseInputs)
SessionBrowseContinue == BrowseContinue(SessionBrowseInputs)
SessionSearchChoice == SearchChoice(SessionSearchInputs)

Next ==
    \/ EmptyInput
    \/ SubmitInput
    \/ OpenStream
    \/ OpenFail
    \/ SessionChunk
    \/ StreamFail
    \/ SessionEnd
    \/ SessionProbe
    \/ TurnReturn
    \/ TurnError
    \/ Interrupt
    \/ Exit
    \/ SaveWrite
    \/ SaveFail
    \/ HistoryCommand
    \/ SearchCommand
    \/ SessionBrowseKey
    \/ SessionBrowseContinue
    \/ SessionSearchChoice
    \/ HistoryInputAbort

Spec == Init /\ [][Next]_vars

\* One call of get_streaming_response on a given conversation.
Conversations ==
    {<<SystemMessage(SeedContent), UserMessage("hi")>>,
     <<SystemMessage(SeedContent), UserMessage("hi"),
       AssistantMessage("a"), UserMessage("yo")>>}

InitClient ==
    /\ messages \in Conversations
    /\ stats = NoStats
    /\ pc = "client"
    /\ history_file = ChatHistoryInit(NoFile)
    /\ InitHistoryLocals
    /\ cpc = "start"
    /\ response = ChatResponse
    /\ total_chars = 0
    /\ last_chunk = <<>>
    /\ requests = <<>>
    /\ inflight = 0
    /\ sink = <<>>
    /\ pulled = <<>>
    /\ probe_reply = NoReply
    /\ records = <<>>
    /\ turn0 = [messages |-> <<>>, stats |-> NoStats]
    /\ stream_error = FALSE

ClientChunk == StreamChunk(ClientFragments)
ClientEnd == StreamEnd(ClientElapsed)
ClientProbe == ProbeReturn(ClientUsages)

NextClient ==
    \/ OpenStream
    \/ OpenFail
    \/ ClientChunk
    \/ StreamFail
    \/ ClientEnd
    \/ ClientProbe

SpecClient == InitClient /\ [][NextClient]_vars

\* The ChatHistory object on its own: its methods called in any order on a
\* file that earlier runs have written, that was damaged or removed by
\* hand after construction, or that is new.
CorruptFile == FileOf(<<"[", "{", TimestampKey>>)

HistoryFiles ==
    {NoFile, CorruptFile}
    \cup {FileOf(JsonDump(StoreOf(n))) : n \in 0 .. MaxEntries}

HistoryConversations ==
    {<<SystemMessage(SeedContent)>>,
     <<SystemMessage(SeedContent), UserMessage("hi")>>,
     <<SystemMessage(SeedContent), UserMessage("Paris?"),
       AssistantMessage("Visit the Louvre")>>}

SearchKeywords == {"", "PARIS", "zz"}

\* The positions get_session is asked for: before the first entry, the
\* first, the last of a full page, and around the end of the history.
SessionIndexes ==
    {-1, 0, PageSize - 1, MaxEntries - 1, MaxEntries, MaxEntries + MaxSaves}

InitHistory ==
    /\ messages = <<SystemMessage(SeedContent)>>
    /\ stats = NoStats
    /\ pc = "history"
    /\ history_file \in HistoryFiles
    /\ InitHistoryLocals
    /\ cpc = "idle"
    /\ response = ChatResponse
    /\ total_chars = 0
    /\ last_chunk = <<>>
    /\ requests = <<>>
    /\ inflight = 0
    /\ sink = <<>>
    /\ pulled = <<>>
    /\ probe_reply = NoReply
    /\ records = <<>>
    /\ turn0 = [messages |-> <<>>, stats |-> NoStats]
    /\ stream_error = FALSE

CallSaveSession ==
    /\ pc = "history"
    /\ Len(saved) < MaxSaves
    /\ \E msgs \in HistoryConversations : SaveBegin(msgs)
    /\ UNCHANGED <<pc, sessionState, clientLocals>>

CallGetSession ==
    /\ pc = "history"
    /\ hpc = "idle"
    /\ LET history == load_history(history_file)
       IN \E index \in SessionIndexes :
            answer' = [kind |-> "get_session", index |-> index,
                       session |-> get_session(history, index)]
    /\ UNCHANGED <<pc, history_file, hpc, pending, saved, file_io, browse,
                   sessionState, clientLocals>>

CallBrowseHistory ==
    /\ pc = "history"
    /\ BrowseOpen
    /\ UNCHANGED <<pc, sessionState, clientLocals>>

CallSearchHistory ==
    /\ pc = "history"
    /\ LET history == load_history(history_file)
       IN \E keyword \in SearchKeywords : SearchBegin(history, keyword)
    /\ UNCHANGED <<pc, sessionState, clientLocals>>

HistoryBrowseKey == BrowseKey(BrowseInputs)
HistoryBrowseContinue == BrowseContinue(BrowseInputs)
HistorySearchChoice == SearchChoice(SearchInputs)

NextHistory ==
    \/ CallSaveSession
    \/ SaveWrite
    \/ SaveFail
    \/ CallGetSession
    \/ CallBrowseHistory
    \/ HistoryBrowseKey
    \/ HistoryBrowseContinue
    \/ CallSearchHistory
    \/ HistorySearchChoice
    \/ HistoryInputAbort

SpecHistory == InitHistory /\ [][NextHistory]_vars

\* ------------------------------------------------------- properties
\* The content deltas a fragment sequence carries, concatenated in order.
RECURSIVE ConcatDeltas(_)
ConcatDeltas(frags) ==
    IF frags = <<>> THEN ""
    ELSE (IF Head(frags).has_choices THEN Head(frags).content ELSE "")
         \o ConcatDeltas(Tail(frags))

\* The sum of the lengths of these deltas.
RECURSIVE SumDeltaLens(_)
SumDeltaLens(frags) ==
    IF frags = <<>> THEN 0
    ELSE (IF Head(frags).has_choices THEN Len(Head(frags).content) ELSE 0)
         + SumDeltaLens(Tail(frags))

\* The non-empty deltas, one by one, in order.
RECURSIVE EmittedDeltas(_)
EmittedDeltas(frags) ==
    IF frags = <<>> THEN <<>>
    ELSE (IF Head(frags).has_choices /\ Head(frags).content # ""
          THEN <<Head(frags).content>> ELSE <<>>)
         \o EmittedDeltas(Tail(frags))

\* The usage block of the last fragment delivered (NoUsage if none).
TerminalUsage ==
    IF pulled = <<>> THEN NoUsage ELSE pulled[Len(pulled)].usage

UsageSeen == \E i \in 1 .. Len(pulled) : pulled[i].usage.present

ProbeIssued == \E i \in 1 .. Len(requests) : ~requests[i].stream

Estimate(n) == n \div 4

\* C1: when get_streaming_response has drained a stream and returned, the
\* record's content is the concatenation, in arrival order, of the content
\* deltas of the fragments, and total_chars is the sum of their lengths;
\* fragments without choices or with an empty delta add nothing.
C1_ContentIsConcatenation ==
    cpc = "returned" =>
        /\ response.content = ConcatDeltas(pulled)
        /\ response.total_chars = SumDeltaLens(pulled)
        /\ response.total_chars = Len(response.content)

C1_Witness ==
    /\ cpc = "returned"
    /\ Len(pulled) = 2
    /\ pulled[1].content = "a"
    /\ pulled[2].content = "bbab"
    /\ response.content = "abbab"
    /\ response.total_chars = 5

\* C2: once the streaming call has failed, at its opening or at a fragment,
\* the call has raised: no record is returned, the only request issued is
\* the streaming one (no usage probe, no non-streaming replacement), and
\* the display sink holds every delta emitted before the failure.
C2_StreamFailureRaises ==
    stream_error =>
        /\ cpc = "raised"
        /\ records = <<>>
        /\ requests = <<StreamRequest(messages)>>
        /\ probe_reply = NoReply
        /\ sink = EmittedDeltas(pulled)

C2_Witness ==
    /\ stream_error
    /\ cpc = "raised"
    /\ Len(pulled) = 2
    /\ sink = <<"bbab", "a">>

\* C3: when neither the stream nor the probe supplied usage (the probe
\* failed or answered without a usage block), the returned record has
\* prompt_tokens = len(str(messages)) // 4, completion_tokens =
\* len(content) // 4 and total_tokens = their sum.
C3_EstimatesWithoutUsage ==
    (/\ cpc = "returned"
     /\ ~UsageSeen
     /\ probe_reply.kind \in {"failed", "no_usage"}) =>
        /\ response.prompt_tokens = Estimate(SerializedLen(messages))
        /\ response.completion_tokens = Estimate(Len(response.content))
        /\ response.total_tokens =
             response.prompt_tokens + response.completion_tokens

\* C4: when the probe answers with a usage block, the returned record has
\* the probe's prompt count, completion_tokens = len(content) // 4 and
\* total_tokens = their sum, whatever completion and total the probe
\* reported.
C4_ProbePromptPlusEstimate ==
    (cpc = "returned" /\ probe_reply.kind = "usage") =>
        /\ response.prompt_tokens = probe_reply.usage.prompt_tokens
        /\ response.completion_tokens = Estimate(Len(response.content))
        /\ response.total_tokens =
             probe_reply.usage.prompt_tokens
             + Estimate(Len(response.content))

C4_Witness ==
    /\ cpc = "returned"
    /\ probe_reply.kind = "usage"
    /\ Len(response.content) = 5
    /\ response.prompt_tokens = MaxTok
    /\ probe_reply.usage.completion_tokens # response.completion_tokens
    /\ probe_reply.usage.total_tokens # response.total_tokens

\* C5: when the stream was drained and the probe raised, the call still
\* returns (it never raises), with the whole streamed text as content and
\* the token counts estimated from the conversation it was given (without
\* the assistant reply) and from the content.
C5_ProbeFailureIsAbsorbed ==
    probe_reply.kind = "failed" =>
        /\ cpc = "returned"
        /\ ~stream_error
        /\ response.content = ConcatDeltas(pulled)
        /\ response.prompt_tokens = Estimate(SerializedLen(messages))
        /\ response.completion_tokens = Estimate(Len(response.content))
        /\ response.total_tokens =
             Estimate(SerializedLen(messages))
             + Estimate(Len(response.content))

C5_Witness ==
    /\ cpc = "returned"
    /\ probe_reply.kind = "failed"
    /\ response.content = "bbaba"
    /\ response.completion_tokens = 1
    /\ response.prompt_tokens > 0

\* C6: the probe is requested at most once, never while the stream is
\* being pulled, and, once the stream is drained, exactly when the total
\* of the last fragment's usage is 0 or absent; a terminal usage block with
\* total_tokens > 0 means no second request; never are two provider calls
\* outstanding.
C6_ProbeOnceAfterDrain ==
    /\ inflight <= 1
    /\ Len(requests) <= 2
    /\ \A i \in 1 .. Len(requests) : requests[i].stream <=> i = 1
    /\ ProbeIssued =>
         /\ cpc \in {"probe", "returned"}
         /\ requests[2] = ProbeRequest(messages, ConcatDeltas(pulled))
    /\ cpc \in {"probe", "returned"} =>
         (ProbeIssued <=> TerminalUsage.total_tokens = 0)
    /\ cpc = "probe" <=> (inflight = 1 /\ ProbeIssued /\ probe_reply = NoReply)

C6_Witness ==
    /\ cpc = "returned"
    /\ ~ProbeIssued
    /\ Len(pulled) = 2
    /\ TerminalUsage.present
    /\ TerminalUsage.total_tokens > 0

\* C7 as stated: whenever the last fragment carried usage counts, whatever
\* their values, the returned record has exactly these counts, and
\* token_rate is completion_tokens / elapsed_time, or 0 for no elapsed time.
C7_TerminalUsageVerbatim ==
    (cpc = "returned" /\ TerminalUsage.present) =>
        /\ response.prompt_tokens = TerminalUsage.prompt_tokens
        /\ response.completion_tokens = TerminalUsage.completion_tokens
        /\ response.total_tokens = TerminalUsage.total_tokens
        /\ response.token_rate =
             (IF response.elapsed_time = 0 THEN <<0, 1>>
              ELSE <<TerminalUsage.completion_tokens, response.elapsed_time>>)

\* C7 amended: whenever the last fragment carried usage counts with
\* total_tokens > 0, the returned record has exactly these counts, and
\* token_rate is completion_tokens / elapsed_time, or 0 for no elapsed time.
C7_PositiveTerminalUsageVerbatim ==
    (/\ cpc = "returned"
     /\ TerminalUsage.present
     /\ TerminalUsage.total_tokens > 0) =>
        /\ response.prompt_tokens = TerminalUsage.prompt_tokens
        /\ response.completion_tokens = TerminalUsage.completion_tokens
        /\ response.total_tokens = TerminalUsage.total_tokens
        /\ response.token_rate =
             (IF response.elapsed_time = 0 THEN <<0, 1>>
              ELSE <<TerminalUsage.completion_tokens, response.elapsed_time>>)

C7_Witness ==
    /\ cpc = "returned"
    /\ TerminalUsage = Usage(0, MaxTok, MaxTok)
    /\ response.elapsed_time > 0
    /\ response.token_rate = <<MaxTok, response.elapsed_time>>

\* C8 as stated: whenever the last fragment carried a usage block, the
\* returned record has total_tokens = prompt_tokens + completion_tokens.
C8_TotalIsSum ==
    (cpc = "returned" /\ TerminalUsage.present) =>
        response.total_tokens =
            response.prompt_tokens + response.completion_tokens

\* C8 amended: whenever the last fragment carried a usage block whose own
\* total is the sum of its prompt and completion counts, the returned
\* record has total_tokens = prompt_tokens + completion_tokens.
C8_TotalIsSumOfConsistentUsage ==
    (/\ cpc = "returned"
     /\ TerminalUsage.present
     /\ TerminalUsage.total_tokens =
          TerminalUsage.prompt_tokens + TerminalUsage.completion_tokens) =>
        response.total_tokens =
            response.prompt_tokens + response.completion_tokens

C8_Witness ==
    /\ cpc = "returned"
    /\ TerminalUsage = Usage(MaxTok, MaxTok, 2 * MaxTok)
    /\ response.total_tokens = 2 * MaxTok
    /\ response.prompt_tokens = MaxTok

\* The sum of one numeric field over a sequence of records.
RECURSIVE SumOf(_, _)
SumOf(recs, field) ==
    IF recs = <<>> THEN 0 ELSE Head(recs)[field] + SumOf(Tail(recs), field)

LastRecord == records[Len(records)]

\* The last turn of the run was submitted and its call returned a record.
TurnSucceeded ==
    /\ pc \notin {"turn", "interrupted"}
    /\ turn0.messages # <<>>
    /\ ~stream_error

\* C9: after a successful turn (its call did not fail and main is back at
\* the prompt) the conversation is the one the turn started from, extended
\* by exactly the user message and an assistant message with the returned
\* record's content; the totals are the ones the turn started from plus the
\* record's elapsed time and three token counts, once; the seed system
\* message is still first.
C9_TurnAddsTwoMessages ==
    TurnSucceeded =>
        /\ records # <<>>
        /\ \E text \in UserTexts :
             messages = turn0.messages
                        \o <<UserMessage(text),
                             AssistantMessage(LastRecord.content)>>
        /\ messages[1] = SystemMessage(SeedContent)
        /\ stats.total_time = turn0.stats.total_time + LastRecord.elapsed_time
        /\ stats.total_prompt_tokens =
             turn0.stats.total_prompt_tokens + LastRecord.prompt_tokens
        /\ stats.total_completion_tokens =
             turn0.stats.total_completion_tokens
             + LastRecord.completion_tokens
        /\ stats.total_tokens =
             turn0.stats.total_tokens + LastRecord.total_tokens

C9_Witness ==
    /\ TurnSucceeded
    /\ pc = "prompt"
    /\ Len(messages) = 5
    /\ messages[2] = UserMessage("hi")
    /\ messages[4] = UserMessage("hi")
    /\ messages[5] = AssistantMessage("bbabbbab")
    /\ Len(records) = 2
    /\ LastRecord.total_tokens > 0
    /\ LastRecord.elapsed_time > 0
    /\ turn0.stats.total_tokens > 0

\* Each total is the sum of its field over the records returned so far.
StatsAreSums ==
    /\ stats.total_time = SumOf(records, "elapsed_time")
    /\ stats.total_prompt_tokens = SumOf(records, "prompt_tokens")
    /\ stats.total_completion_tokens = SumOf(records, "completion_tokens")
    /\ stats.total_tokens = SumOf(records, "total_tokens")

\* No step lowers a total or drops a record.
StatsGrow ==
    /\ stats'.total_time >= stats.total_time
    /\ stats'.total_prompt_tokens >= stats.total_prompt_tokens
    /\ stats'.total_completion_tokens >= stats.total_completion_tokens
    /\ stats'.total_tokens >= stats.total_tokens
    /\ Len(records') >= Len(records)

\* C10: at every moment of a run each of the four session totals is the sum
\* of the corresponding field over the records returned so far, and no step
\* of the run lowers or resets a total.
C10_TotalsAreSums == []StatsAreSums /\ [][StatsGrow]_vars

C10_Witness ==
    /\ Len(records) = 2
    /\ records[1].total_tokens > 0
    /\ records[2].total_tokens > 0
    /\ records[1].elapsed_time > 0
    /\ stats.total_tokens = records[1].total_tokens + records[2].total_tokens
    /\ stats.total_time > records[2].elapsed_time

\* The last turn of the run failed at the streaming call and main has
\* dealt with the failure.
TurnFailed == pc # "turn" /\ stream_error

\* After a failed turn the session holds what the turn started from and the
\* user message, and a record for every assistant message.
FailedTurnKeepsSession ==
    TurnFailed =>
        /\ stats = turn0.stats
        /\ \E text \in UserTexts :
             messages = Append(turn0.messages, UserMessage(text))
        /\ CountRole(messages, "assistant") = Len(records)
        /\ StatsAreSums

\* The step that deals with the failure goes back to the prompt and touches
\* neither the conversation nor the totals nor the records.
FailedTurnResumes ==
    (pc = "turn" /\ cpc = "raised") =>
        /\ pc' = "prompt"
        /\ messages' = messages
        /\ stats' = stats
        /\ records' = records

\* C11: when the streaming call of a turn fails, main reports the error and
\* is back at the prompt for the next input (the run does not end); the
\* totals are the ones the turn started from and no assistant message is
\* appended for the turn.
C11_FailedTurnContinues ==
    []FailedTurnKeepsSession /\ [][FailedTurnResumes]_vars

C11_Witness ==
    /\ TurnFailed
    /\ pc = "prompt"
    /\ Len(records) = 1
    /\ Len(messages) = 4
    /\ messages[3].role = "assistant"
    /\ messages[4] = UserMessage("hi")
    /\ stats.total_tokens > 0

\* The run has ended in one of the ways named: the exit command or the end
\* of input at the prompt, or Ctrl-C while a response was streaming.
RunEnded == pc \in {"exited", "interrupted"}

\* C12: every end of the run (exit command, end of input at the prompt,
\* interrupt while a response is streaming) is preceded by exactly one
\* save_session call, with the conversation as it is then, and no
\* save_session call is made before the run ends.
C12_EndIsPrecededByOneSave ==
    /\ RunEnded => saved = <<messages>>
    /\ pc \in {"prompt", "turn", "command"} => saved = <<>>

\* The (role, content) pairs of a conversation, in order.
PairsOf(conv) ==
    [i \in 1 .. Len(conv) |->
        [role |-> conv[i].role, content |-> conv[i].content]]

LastSaved == saved[Len(saved)]

\* C13: once save_session has returned from saving a conversation of more
\* than one message, load_history yields a last entry whose messages are
\* the (role, content) pairs of all the messages of the conversation, in
\* order, the system message included.
C13_SaveThenLoadRoundTrip ==
    answer.kind = "saved" =>
        LET history == load_history(history_file)
        IN /\ Len(LastSaved) > 1
           /\ history # <<>>
           /\ history[Len(history)].messages = PairsOf(LastSaved)
           /\ history[Len(history)].timestamp \in Timestamps

C13_Witness ==
    /\ answer.kind = "saved"
    /\ Len(LastSaved) = 3
    /\ LastSaved[1].role = "system"
    /\ Len(load_history(history_file)) = 3
    /\ Len(load_history(history_file)[3].messages) = 3

\* A step that is a save_session call with at most one message.
TrivialSave ==
    /\ Len(saved') = Len(saved) + 1
    /\ Len(saved'[Len(saved')]) <= 1

\* C14: save_session with a conversation of at most the seed message leaves
\* the store as it is, whatever it holds (entries, none, a damaged text, no
\* file): the file is neither read nor written.
C14_TrivialSaveLeavesStore ==
    [][TrivialSave =>
          /\ history_file' = history_file
          /\ file_io' = <<>>
          /\ hpc' = "idle"]_vars

C14_Witness ==
    /\ answer.kind = "skipped"
    /\ Len(LastSaved) = 1
    /\ file_io = <<>>
    /\ Len(load_history(history_file)) = 2

\* The first n elements of a sequence.
Front(seq, n) == SubSeq(seq, 1, n)

\* C15: the store is append-only: when a save_session call that had
\* something to save, on a readable store that holds entries, ends,
\* load_history returns the entries it returned before the call, unmodified
\* and at the same positions and in the same order, followed by one new
\* entry.
C15_StoreIsAppendOnly ==
    [][(hpc = "writing" /\ hpc' = "idle" /\ Len(pending) > 1) =>
          LET after == load_history(history_file')
          IN /\ Len(after) = Len(pending)
             /\ Front(after, Len(pending) - 1)
                  = Front(pending, Len(pending) - 1)]_vars

\* C16: in every state after construction, the states between the steps of
\* a save_session rewrite and the state a failed write leaves included,
\* the file holds a syntactically valid JSON array.
C16_FileIsAlwaysJsonArray ==
    history_file.exists /\ JsonLoad(history_file.text).ok

\* C17: get_session(index) returns the timestamp and the messages of the
\* entry at the index when 0 <= index < count, and ("", []) otherwise, for
\* a negative index, one past the end, and an empty, missing or damaged
\* store; it does not raise.
C17_GetSessionIsBoundsChecked ==
    answer.kind = "get_session" =>
        LET history == load_history(history_file)
        IN IF answer.index \in 0 .. Len(history) - 1
           THEN answer.session =
                  <<history[answer.index + 1].timestamp,
                    history[answer.index + 1].messages>>
           ELSE answer.session = <<"", <<>>>>

C17_Witness ==
    /\ answer.kind = "get_session"
    /\ answer.index = -1
    /\ answer.session = <<"", <<>>>>
    /\ Len(load_history(history_file)) = MaxEntries

\* Some stretch of the text is the keyword, the case of letters ignored.
ContainsIgnoringCase(text, keyword) ==
    \E from \in 0 .. Len(text) - Len(keyword) :
        Lower(SubSeq(text, from + 1, from + Len(keyword))) = Lower(keyword)

EntryMatches(entry, keyword) ==
    \E k \in 1 .. Len(entry.messages) :
        ContainsIgnoringCase(entry.messages[k].content, keyword)

\* C18: search_history(keyword) collects the (index, timestamp) pairs of
\* exactly the entries with a message whose content contains the keyword,
\* case ignored, each once and in ascending order of index; the empty
\* keyword finds every entry that has a message; a keyword that no message
\* contains finds nothing.
C18_SearchFindsMatchingEntries ==
    (answer.kind \in {"results", "no_results", "no_history"}
     /\ "keyword" \in DOMAIN answer) =>
        LET history == load_history(history_file)
            found == answer.results
            keyword == answer.keyword
        IN /\ \A a \in 1 .. Len(found) :
                /\ found[a][1] \in 0 .. Len(history) - 1
                /\ found[a][2] = history[found[a][1] + 1].timestamp
                /\ EntryMatches(history[found[a][1] + 1], keyword)
           /\ \A a, b \in 1 .. Len(found) :
                a < b => found[a][1] < found[b][1]
           /\ \A i \in 1 .. Len(history) :
                EntryMatches(history[i], keyword) =>
                    \E a \in 1 .. Len(found) : found[a][1] = i - 1
           /\ keyword = "" =>
                Len(found) = Cardinality({i \in 1 .. Len(history) :
                                             history[i].messages # <<>>})
           /\ (answer.kind = "results") = (found # <<>>)

C18_Witness ==
    /\ answer.kind = "results"
    /\ answer.keyword = "PARIS"
    /\ Len(answer.results) = 3
    /\ answer.results[1][1] = 0
    /\ answer.results[2][1] = 3
    /\ answer.results[3][1] = 4
    /\ Len(load_history(history_file)) = MaxEntries

\* The least number of pages of the given size that hold count entries.
CeilDiv(count, size) ==
    CHOOSE k \in 0 .. count :
        /\ k * size >= count
        /\ \A j \in 0 .. count : j * size >= count => k <= j

\* The browser's page is one of the pages of the store and the range it
\* displays is a non-empty range of positions of the store.
BrowsePageInRange ==
    hpc \in {"browse", "continue"} =>
        /\ browse.session_count = Len(load_history(history_file))
        /\ browse.session_count > 0
        /\ browse.total_pages = CeilDiv(browse.session_count, 5)
        /\ browse.current_page \in 0 .. browse.total_pages - 1
        /\ browse.start_idx = browse.current_page * 5
        /\ browse.end_idx =
             (IF browse.start_idx + 5 <= browse.session_count
              THEN browse.start_idx + 5 ELSE browse.session_count)
        /\ 0 <= browse.start_idx
        /\ browse.start_idx < browse.end_idx
        /\ browse.end_idx <= browse.session_count

\* n on the last page and p on the first leave the page where it is.
BrowseStopsAtEnds ==
    (hpc \in {"browse", "continue"} /\ hpc' \in {"browse", "continue"}) =>
        /\ browse'.total_pages = browse.total_pages
        /\ (browse'.choice = "n"
            /\ browse.current_page = browse.total_pages - 1) =>
              browse'.current_page = browse.current_page
        /\ (browse'.choice = "p" /\ browse.current_page = 0) =>
              browse'.current_page = 0

\* C19: in browse_history over a non-empty store, with pages of 5,
\* total_pages is the count divided by 5 and rounded up; after any commands
\* (n, p, a number, anything else) the page is in 0 .. total_pages - 1 and
\* the displayed range [page * 5, min(page * 5 + 5, count)) is non-empty
\* and within the store; n on the last page and p on the first page leave
\* the page unchanged.
C19_BrowsePagesStayInRange ==
    []BrowsePageInRange /\ [][BrowseStopsAtEnds]_vars

C19_Witness ==
    /\ hpc = "browse"
    /\ browse.choice = "n"
    /\ browse.session_count = 6
    /\ browse.total_pages = 2
    /\ browse.current_page = 1
    /\ browse.start_idx = 5
    /\ browse.end_idx = 6

\* The conversation is the one the streaming request was made with, and the
\* probe request holds it with the assistant reply after it.
ConversationAsGiven ==
    /\ requests # <<>> => messages = requests[1].messages
    /\ ProbeIssued =>
         /\ requests[2].messages =
              Append(messages, AssistantMessage(response.content))
         /\ Len(requests[2].messages) = Len(requests[1].messages) + 1

\* C20: get_streaming_response never modifies the conversation it is
\* given, on any of its paths (return after a stream with usage, after a
\* probe that answered, after a probe that failed, or a raise); the
\* assistant reply added for the probe exists only in the probe request.
C20_ConversationIsNotModified ==
    []ConversationAsGiven /\ [][messages' = messages]_vars

C20_Witness ==
    /\ cpc = "returned"
    /\ ProbeIssued
    /\ probe_reply.kind = "failed"
    /\ Len(messages) = 4
    /\ Len(requests[2].messages) = 5
    /\ requests[2].messages[5] = AssistantMessage("abbab")

TypeOK ==
    /\ cpc \in {"idle", "start", "pull", "probe", "returned", "raised"}
    /\ pc \in {"prompt", "turn", "command", "exit_save", "exited", "interrupted",
             "crashed", "client", "history"}
    /\ hpc \in {"idle", "writing", "browse", "continue", "search"}
    /\ inflight \in 0 .. 1
====
